---- MODULE Spec2Model ----
(***************************************************************************)
(* Transaction lifecycle and timeout cancellation of the payment gateway:  *)
(* TransactionService, PayosListener, PayosService.handleWebhook,          *)
(* QueueListener, QueueService and TransactionTimeoutProcessor.            *)
(*                                                                         *)
(* Every await in the source is a point where other handlers may run, so   *)
(* a service method whose read and write are separate database commands    *)
(* is modelled as separate steps; a prisma.$transaction block is one step. *)
(***************************************************************************)
EXTENDS Integers, Sequences, FiniteSets, TLC

----------------------------------------------------------------------------
\* Bounds of the exploration
MaxTx == 1         \* successful create calls
MaxPatch == 1      \* PATCH /transaction/:id calls
MaxWebhook == 2    \* webhook deliveries
MaxResched == 1    \* direct calls of QueueService.scheduleTransactionTimeout
MaxRemove == 1     \* DELETE /transaction/:id calls
MaxRefund == 1     \* rows of the refunds table per transaction
MaxStatsTx == 2    \* rows of the transactions table the statistics read
MaxSignup == 2     \* POST /user calls
MaxPmRequest == 2  \* PATCH and DELETE /payment-methods/:id calls
MaxSharedTx == 2   \* successful create calls while order codes may repeat

----------------------------------------------------------------------------
\* TransactionStatus (create-transaction.dto.ts)
PENDING == "pending"
AWAITING_PAYMENT == "awaiting_payment"
PROCESSING == "processing"
COMPLETED == "completed"
FAILED == "failed"
CANCELLED == "cancelled"
REFUNDED == "refunded"

TransactionStatus ==
  {PENDING, AWAITING_PAYMENT, PROCESSING, COMPLETED, FAILED, CANCELLED, REFUNDED}

\* EVENTS (events.constants.ts)
EV_TRANSACTION_CREATED == "transaction.created"
EV_TRANSACTION_FAILED == "transaction.failed"
EV_STATUS_UPDATED == "transaction.status_updated"
EV_LINK_CREATED == "payment.link_created"
EV_PAYMENT_SUCCESS == "payment.success"
EV_PAYMENT_FAILED == "payment.failed"

\* absent values: SQL NULL / JS undefined, a null timestamp, a null order code
NULL == "null"
UNDEF == "undefined"
NoTime == 0
NoCode == 0

\* job options of QueueService.scheduleTransactionTimeout
Attempts == 3

\* the users and payment_methods tables (read only in this subsystem)
Users == {"u1", "u2"}
PaymentMethodOwner == [pm1 |-> "u1", pm2 |-> "u2"]
PaymentMethods == DOMAIN PaymentMethodOwner

\* inputs
UserInputs == {"u1", "ghost"}
PaymentMethodInputs == {UNDEF, "pm1", "pm2", "pmX"}
StatusInputs == {UNDEF, COMPLETED}
AmountInputs == {100000}
DbFaults == {"none", "transactions.create", "transaction_events.create"}
PatchStatusInputs == {UNDEF, PENDING, COMPLETED, CANCELLED}
WebhookCodes == {"00", "01"}
FirstOrderCode == 101
UnknownOrderCode == 999

TxIds == 1..MaxTx

GwNull == [kind |-> NULL, code |-> NULL, orderCode |-> NoCode, error |-> NULL]
GwUndef == [kind |-> UNDEF, code |-> NULL, orderCode |-> NoCode, error |-> NULL]
GwLink(oc) == [kind |-> "payment_link", code |-> "00", orderCode |-> oc, error |-> NULL]
GwErrorBlank(msg) == [kind |-> "error", code |-> NULL, orderCode |-> NoCode, error |-> NULL]
GwError(msg) == [kind |-> "error", code |-> NULL, orderCode |-> NoCode, error |-> msg]
GwWebhook(c, oc) == [kind |-> "webhook", code |-> c, orderCode |-> oc, error |-> NULL]

VARIABLES
  transactions,        \* table transactions: id -> row
  transaction_events,  \* table transaction_events, in insertion order
  created,             \* number of rows ever inserted (source of fresh ids)
  emitted,             \* events passed to EventEmitter2.emit by the latest step, in order
  reply,               \* outcome of the operation the latest step finished
  listener,            \* PayosListener.handleTransactionCreated, per event
  orderClock,          \* source of PayosService.createPayment order codes
  patch,               \* the PATCH /transaction/:id request in flight
  patches,             \* number of PATCH requests made
  webhook,             \* the webhook request in flight
  webhooks,            \* number of webhook deliveries
  pendingSchedule,     \* QueueListener.handlePaymentLinkCreated awaiting queue.add
  pendingCancel,       \* QueueListener.handleTransactionStatusUpdated awaiting the queue
  jobs,                \* the BullMQ queue 'transaction-timeout'
  jobCounter,          \* the queue's id counter
  worker,              \* TransactionTimeoutProcessor, per active job
  cancelCalls,         \* calls of PayosService.cancelPayment by the latest step
  rescheds,            \* number of direct schedule calls
  refunds,             \* table refunds: transaction id -> number of its rows
  remove,              \* the DELETE /transaction/:id request in flight
  removes,             \* number of DELETE requests made
  keycloak,            \* the users of the Keycloak realm
  users,               \* table users
  signup,              \* the POST /user requests in flight
  signups,             \* number of POST /user requests made
  payment_methods,     \* table payment_methods: id -> row
  pmRequest,           \* the PATCH and DELETE /payment-methods/:id requests in flight
  pmRequests           \* number of such requests made

vars == <<transactions, transaction_events, created, emitted, reply,
          listener, orderClock, patch, patches, webhook, webhooks,
          pendingSchedule, pendingCancel, jobs, jobCounter, worker,
          cancelCalls, rescheds, refunds, remove, removes,
          keycloak, users, signup, signups, payment_methods, pmRequest, pmRequests>>

dbVars == <<transactions, transaction_events, created>>
queueVars == <<pendingSchedule, pendingCancel, jobs, jobCounter, worker, rescheds>>
httpVars == <<patch, patches, webhook, webhooks>>
removalVars == <<refunds, remove, removes>>
accountVars == <<keycloak, users, signup, signups, payment_methods, pmRequest, pmRequests>>

----------------------------------------------------------------------------
\* Helpers over the tables

Exists(id) == id \in DOMAIN transactions

EventsOf(id) == SelectSeq(transaction_events, LAMBDA e : e.transaction_id = id)

AuditEvent(id, type, from, to) ==
  [transaction_id |-> id, event_type |-> type, from_value |-> from, to_value |-> to]

FindByExternalAny(oc) == DOMAIN transactions

\* tx.transactions.findFirst({ where: { external_transaction_id } })
FindByExternal(oc) ==
  {id \in DOMAIN transactions : transactions[id].external_transaction_id = oc}

\* what the caller of a finished operation receives; input is the request
Answer(op, id, outcome, message, input) ==
  [op |-> op, id |-> id, outcome |-> outcome, message |-> message, input |-> input]

Reply(op, id, outcome, message) == Answer(op, id, outcome, message, NULL)

NoReply == Reply("none", 0, "none", "")

----------------------------------------------------------------------------
\* TransactionService.create

CreateDtos ==
  [payment_method_id : PaymentMethodInputs, amount : AmountInputs, status : StatusInputs]

\* the checks at the head of the $transaction callback; "" when they pass
CreateValidation(userId, dto) ==
  IF userId \notin Users THEN "User not found"
  ELSE IF dto.payment_method_id = UNDEF THEN ""
  ELSE IF dto.payment_method_id \notin PaymentMethods THEN "Payment method not found"
  ELSE IF PaymentMethodOwner[dto.payment_method_id] # userId
       THEN "Payment method does not belong to this user"
  ELSE ""

InitialStatusFromInput(dto) == IF dto.status = UNDEF THEN PENDING ELSE dto.status

\* status: TransactionStatus.PENDING in tx.transactions.create
InitialStatus(dto) == PENDING

NewRow(userId, dto) ==
  [user_id |-> userId,
   payment_method_id |-> dto.payment_method_id,
   amount |-> dto.amount,
   status |-> InitialStatus(dto),
   external_transaction_id |-> NoCode,
   gateway_response |-> GwNull,
   completed_at |-> NoTime]

CreateWrittenWithoutEvent(userId, dto, fault) ==
  LET id == created + 1
      withRow == [t \in DOMAIN transactions \cup {id} |->
                    IF t = id THEN NewRow(userId, dto) ELSE transactions[t]]
  IN IF CreateValidation(userId, dto) # "" \/ fault = "transactions.create"
       THEN <<transactions, transaction_events, created>>
     ELSE <<withRow, transaction_events, created + 1>>

\* the tables as the callback has written them when it returns or throws at
\* the database command named by fault
CreateWritten(userId, dto, fault) ==
  LET id == created + 1
      withRow == [t \in DOMAIN transactions \cup {id} |->
                    IF t = id THEN NewRow(userId, dto) ELSE transactions[t]]
  IN IF CreateValidation(userId, dto) # "" \/ fault = "transactions.create"
       THEN <<transactions, transaction_events, created>>
     ELSE IF fault = "transaction_events.create"
       THEN <<withRow, transaction_events, created + 1>>
     ELSE <<withRow,
            Append(transaction_events, AuditEvent(id, "CREATED", NULL, PENDING)),
            created + 1>>

AtomicUnitPartial(committed, written, before) == written

\* prisma.$transaction: all writes of the callback, or none of them
AtomicUnit(committed, written, before) == IF committed THEN written ELSE before

CreatedPayload(id, row) ==
  [event |-> EV_TRANSACTION_CREATED, transactionId |-> id, userId |-> row.user_id,
   amount |-> row.amount, paymentMethodId |-> row.payment_method_id]

ListenerStart(id, row) ==
  [pc |-> "updateStatus_read",
   payload |-> [transactionId |-> id, userId |-> row.user_id, amount |-> row.amount],
   read |-> NULL, orderCode |-> NoCode, error |-> NULL]

create(userId, dto, fault) ==
  /\ LET msg == CreateValidation(userId, dto)
         ok == msg = "" /\ fault = "none"
         db == AtomicUnit(ok, CreateWritten(userId, dto, fault), dbVars)
         id == created + 1
     IN /\ transactions' = db[1]
        /\ transaction_events' = db[2]
        /\ created' = db[3]
        /\ IF ok
             THEN /\ emitted' = <<CreatedPayload(id, db[1][id])>>
                  /\ listener' = [t \in DOMAIN listener \cup {id} |->
                                    IF t = id THEN ListenerStart(id, db[1][id])
                                    ELSE listener[t]]
                  /\ reply' = Answer("create", id, "ok", "Transaction created successfully",
                                     [userId |-> userId, dto |-> dto, fault |-> fault])
             ELSE /\ emitted' = <<>>
                  /\ UNCHANGED listener
                  /\ reply' = Answer("create", 0, "BadRequestException",
                                     IF msg # "" THEN msg ELSE "Failed to create transaction",
                                     [userId |-> userId, dto |-> dto, fault |-> fault])
  /\ UNCHANGED <<orderClock, httpVars, queueVars>>
  /\ cancelCalls' = <<>>
  /\ UNCHANGED <<removalVars, accountVars>>

\* POST /transaction while fewer than MaxTx transactions have been created
Create ==
  /\ created < MaxTx
  /\ \E u \in UserInputs, d \in CreateDtos, f \in DbFaults : create(u, d, f)

\* POST /transaction for the first transaction only
CreateFirst ==
  /\ created = 0
  /\ \E u \in UserInputs, d \in CreateDtos, f \in DbFaults : create(u, d, f)

\* a POST /transaction that is rejected, at any time
CreateRejected ==
  \E u \in UserInputs, d \in CreateDtos, f \in DbFaults :
    /\ CreateValidation(u, d) # "" \/ f # "none"
    /\ create(u, d, f)

----------------------------------------------------------------------------
\* TransactionService.update and TransactionService.updateStatus

UpdateDto(status, oc, gw) ==
  [status |-> status, external_transaction_id |-> oc, gateway_response |-> gw]

\* prisma.transactions.update({ where: { id }, data: updateTransactionDto })
UpdateRow(row, dto) ==
  [row EXCEPT
     !.status = IF dto.status = UNDEF THEN @ ELSE dto.status,
     !.external_transaction_id =
        IF dto.external_transaction_id = NoCode THEN @ ELSE dto.external_transaction_id,
     !.gateway_response =
        IF dto.gateway_response = GwUndef THEN @ ELSE dto.gateway_response]

SetRow(id, row) == [transactions EXCEPT ![id] = row]

\* update: the event is created when the returned row's status differs from
\* the status read by the findUnique at the head of the method
UpdateEvents(id, existingStatus, row, dto) ==
  IF row.status # existingStatus
    THEN Append(transaction_events,
                AuditEvent(id, "status_changed", existingStatus,
                           IF dto.status = UNDEF THEN NULL ELSE dto.status))
    ELSE transaction_events

\* updateStatus: the $transaction block; from_value is the status read by the
\* findUnique before the block
UpdateStatusEvents(id, readStatus, status) ==
  Append(transaction_events, AuditEvent(id, "STATUS_CHANGED", readStatus, status))

----------------------------------------------------------------------------
\* PayosListener.handleTransactionCreated

ListenerAt(t, pc) == t \in DOMAIN listener /\ listener[t].pc = pc

ListenerGoto(t, pc) == listener' = [listener EXCEPT ![t].pc = pc]

\* the handler has returned ("done") or its promise was rejected ("crashed")
ListenerEnd(t, pc) ==
  listener' = [listener EXCEPT ![t] = [@ EXCEPT !.pc = pc, !.read = NULL,
                                                !.orderCode = NoCode, !.error = NULL]]

ListenerThrow(t, msg) ==
  listener' = [listener EXCEPT ![t].pc = "catch_read", ![t].error = msg]

LinkDtoWithoutReference(oc) == UpdateDto(AWAITING_PAYMENT, NoCode, GwLink(oc))

\* the update in the try block
LinkDto(oc) == UpdateDto(AWAITING_PAYMENT, oc, GwLink(oc))

CatchDtoWithoutStatus(msg) == UpdateDto(UNDEF, NoCode, GwError(msg))

\* the update in the catch block
CatchDto(msg) == UpdateDto(FAILED, NoCode, GwError(msg))

LinkCreatedPayload(p, oc) ==
  [event |-> EV_LINK_CREATED, transactionId |-> p.transactionId, userId |-> p.userId,
   checkoutUrl |-> oc, qrCode |-> oc, orderCode |-> oc]

\* reason: `Payment creation failed: ${error.message}`
ListenerFailedPayload(p, msg) ==
  [event |-> EV_TRANSACTION_FAILED, userId |-> p.userId, amount |-> p.amount,
   reason |-> <<"Payment creation failed: ", msg>>]

\* String(Date.now()).slice(-9): the clock's last nine decimal digits
NineDigits == 1000000000

\* const orderCode = Number(String(Date.now()).slice(-9))
OrderCodeAt(now) == now % NineDigits

\* clock readings: a millisecond, the next one, and the first one 10^9 ms later
ClockInputs == {FirstOrderCode, FirstOrderCode + 1, FirstOrderCode + NineDigits}

\* PayosService.createPayment called when the clock reads now, which is not
\* before the reading of the call before it
ListenerCreatePaymentAt(t, now) ==
  /\ ListenerAt(t, "createPayment")
  /\ now >= orderClock
  /\ listener' = [listener EXCEPT ![t].pc = "update_read",
                                  ![t].orderCode = OrderCodeAt(now)]
  /\ orderClock' = now
  /\ UNCHANGED <<dbVars, httpVars, queueVars>>
  /\ emitted' = <<>>
  /\ reply' = NoReply
  /\ cancelCalls' = <<>>
  /\ UNCHANGED <<removalVars, accountVars>>

\* QueueListener.handlePaymentLinkCreated up to its await of the queue
TimeoutJobData(payload) ==
  [transactionId |-> payload.transactionId,
   externalTransactionId |-> payload.orderCode,
   userId |-> payload.userId]

ListenerUpdateStatusRead(t) ==
  /\ ListenerAt(t, "updateStatus_read")
  /\ IF Exists(t)
       THEN listener' = [listener EXCEPT ![t].pc = "updateStatus_write",
                                         ![t].read = transactions[t].status]
       ELSE ListenerThrow(t, "Transaction not found")
  /\ UNCHANGED <<dbVars, orderClock, httpVars, queueVars>>
  /\ emitted' = <<>>
  /\ reply' = NoReply
  /\ cancelCalls' = <<>>
  /\ UNCHANGED <<removalVars, accountVars>>

ListenerUpdateStatusWrite(t) ==
  /\ ListenerAt(t, "updateStatus_write")
  /\ IF Exists(t)
       THEN /\ transactions' = SetRow(t, [transactions[t] EXCEPT !.status = PROCESSING])
            /\ transaction_events' = UpdateStatusEvents(t, listener[t].read, PROCESSING)
            /\ listener' = [listener EXCEPT ![t].pc = "createPayment", ![t].read = NULL]
       ELSE /\ ListenerThrow(t, "Record to update not found")
            /\ UNCHANGED <<transactions, transaction_events>>
  /\ UNCHANGED <<created, orderClock, httpVars, queueVars>>
  /\ emitted' = <<>>
  /\ reply' = NoReply
  /\ cancelCalls' = <<>>
  /\ UNCHANGED <<removalVars, accountVars>>

\* a database command of updateStatus's $transaction fails: the block is
\* rolled back, updateStatus throws, and the try block of the listener is left
\* for its catch block
ListenerUpdateStatusFails(t) ==
  /\ ListenerAt(t, "updateStatus_write")
  /\ ListenerThrow(t, "Database error")
  /\ UNCHANGED <<dbVars, orderClock, httpVars, queueVars>>
  /\ emitted' = <<>>
  /\ reply' = NoReply
  /\ cancelCalls' = <<>>
  /\ UNCHANGED <<removalVars, accountVars>>

\* PayosService.createPayment returns the provider's response or throws
ListenerCreatePayment(t) ==
  /\ ListenerAt(t, "createPayment")
  /\ \/ /\ listener' = [listener EXCEPT ![t].pc = "update_read",
                                        ![t].orderCode = orderClock]
        /\ orderClock' = orderClock + 1
     \/ /\ ListenerThrow(t, "PayOS create payment failed")
        /\ UNCHANGED orderClock
  /\ UNCHANGED <<dbVars, httpVars, queueVars>>
  /\ emitted' = <<>>
  /\ reply' = NoReply
  /\ cancelCalls' = <<>>
  /\ UNCHANGED <<removalVars, accountVars>>

ListenerUpdateRead(t) ==
  /\ ListenerAt(t, "update_read")
  /\ IF Exists(t)
       THEN listener' = [listener EXCEPT ![t].pc = "update_write",
                                         ![t].read = transactions[t].status]
       ELSE ListenerThrow(t, "Transaction not found")
  /\ UNCHANGED <<dbVars, orderClock, httpVars, queueVars>>
  /\ emitted' = <<>>
  /\ reply' = NoReply
  /\ cancelCalls' = <<>>
  /\ UNCHANGED <<removalVars, accountVars>>

ListenerUpdateWrite(t) ==
  /\ ListenerAt(t, "update_write")
  /\ IF Exists(t)
       THEN LET dto == LinkDto(listener[t].orderCode)
                row == UpdateRow(transactions[t], dto)
                ev == LinkCreatedPayload(listener[t].payload, listener[t].orderCode)
            IN /\ transactions' = SetRow(t, row)
               /\ transaction_events' = UpdateEvents(t, listener[t].read, row, dto)
               /\ emitted' = <<ev>>
               /\ pendingSchedule' =
                    IF ev.orderCode # NoCode
                      THEN pendingSchedule \cup {TimeoutJobData(ev)}
                      ELSE pendingSchedule
               /\ ListenerEnd(t, "done")
       ELSE /\ ListenerThrow(t, "Failed to update transaction")
            /\ UNCHANGED <<transactions, transaction_events, pendingSchedule>>
            /\ emitted' = <<>>
  /\ UNCHANGED <<created, orderClock, httpVars, pendingCancel, jobs, jobCounter,
                 worker, rescheds>>
  /\ reply' = NoReply
  /\ cancelCalls' = <<>>
  /\ UNCHANGED <<removalVars, accountVars>>

ListenerCatchRead(t) ==
  /\ ListenerAt(t, "catch_read")
  /\ IF Exists(t)
       THEN listener' = [listener EXCEPT ![t].pc = "catch_write",
                                         ![t].read = transactions[t].status]
       ELSE ListenerEnd(t, "crashed")
  /\ UNCHANGED <<dbVars, orderClock, httpVars, queueVars>>
  /\ emitted' = <<>>
  /\ reply' = NoReply
  /\ cancelCalls' = <<>>
  /\ UNCHANGED <<removalVars, accountVars>>

ListenerCatchWrite(t) ==
  /\ ListenerAt(t, "catch_write")
  /\ IF Exists(t)
       THEN LET dto == CatchDto(listener[t].error)
                row == UpdateRow(transactions[t], dto)
            IN /\ transactions' = SetRow(t, row)
               /\ transaction_events' = UpdateEvents(t, listener[t].read, row, dto)
               /\ emitted' =
                    <<ListenerFailedPayload(listener[t].payload, listener[t].error)>>
               /\ ListenerEnd(t, "done")
       ELSE /\ ListenerEnd(t, "crashed")
            /\ UNCHANGED <<transactions, transaction_events>>
            /\ emitted' = <<>>
  /\ UNCHANGED <<created, orderClock, httpVars, queueVars>>
  /\ reply' = NoReply
  /\ cancelCalls' = <<>>
  /\ UNCHANGED <<removalVars, accountVars>>

ListenerStep(t) ==
  \/ ListenerUpdateStatusRead(t)
  \/ ListenerUpdateStatusWrite(t)
  \/ ListenerCreatePayment(t)
  \/ ListenerUpdateRead(t)
  \/ ListenerUpdateWrite(t)
  \/ ListenerCatchRead(t)
  \/ ListenerCatchWrite(t)

----------------------------------------------------------------------------
\* PATCH /transaction/:id -> TransactionService.update

PatchIdle == [pc |-> "idle", id |-> 0, dto |-> UpdateDto(UNDEF, NoCode, GwUndef), read |-> NULL]

PatchRead(t, status) ==
  /\ patch.pc = "idle"
  /\ patches < MaxPatch
  /\ patches' = patches + 1
  /\ IF Exists(t)
       THEN /\ patch' = [pc |-> "update_write", id |-> t,
                         dto |-> UpdateDto(status, NoCode, GwUndef),
                         read |-> transactions[t].status]
            /\ reply' = NoReply
       ELSE /\ reply' = Reply("update", t, "NotFoundException", "Transaction not found")
            /\ UNCHANGED patch
  /\ UNCHANGED <<dbVars, listener, orderClock, webhook, webhooks, queueVars>>
  /\ emitted' = <<>>
  /\ cancelCalls' = <<>>
  /\ UNCHANGED <<removalVars, accountVars>>

PatchWrite ==
  /\ patch.pc = "update_write"
  /\ patch' = PatchIdle
  /\ IF Exists(patch.id)
       THEN LET row == UpdateRow(transactions[patch.id], patch.dto)
            IN /\ transactions' = SetRow(patch.id, row)
               /\ transaction_events' = UpdateEvents(patch.id, patch.read, row, patch.dto)
               /\ reply' = Reply("update", patch.id, "ok", row.status)
       ELSE /\ reply' = Reply("update", patch.id, "BadRequestException",
                              "Failed to update transaction")
            /\ UNCHANGED <<transactions, transaction_events>>
  /\ UNCHANGED <<created, listener, orderClock, patches, webhook, webhooks, queueVars>>
  /\ emitted' = <<>>
  /\ cancelCalls' = <<>>
  /\ UNCHANGED <<removalVars, accountVars>>

\* update: prisma.transactions.update has written the row, then
\* prisma.transaction_events.create throws; the catch block turns the error
\* into BadRequestException
PatchWriteEventFails ==
  /\ patch.pc = "update_write"
  /\ Exists(patch.id)
  /\ LET row == UpdateRow(transactions[patch.id], patch.dto)
     IN /\ row.status # patch.read
        /\ transactions' = SetRow(patch.id, row)
  /\ patch' = PatchIdle
  /\ reply' = Reply("update", patch.id, "BadRequestException",
                    "Failed to update transaction")
  /\ UNCHANGED <<transaction_events, created, listener, orderClock, patches, webhook,
                 webhooks, queueVars>>
  /\ emitted' = <<>>
  /\ cancelCalls' = <<>>
  /\ UNCHANGED <<removalVars, accountVars>>

----------------------------------------------------------------------------
\* DELETE /transaction/:id -> TransactionService.remove, and the refunds table

RemoveIdle == [pc |-> "idle", id |-> 0]

\* a row of refunds is inserted for an existing transaction (no code of this
\* service writes the table; the foreign key asks for the transaction)
RefundInserted(t) ==
  /\ Exists(t)
  /\ refunds[t] < MaxRefund
  /\ refunds' = [refunds EXCEPT ![t] = @ + 1]
  /\ UNCHANGED <<dbVars, listener, orderClock, httpVars, queueVars, remove, removes,
                 accountVars>>
  /\ emitted' = <<>>
  /\ reply' = NoReply
  /\ cancelCalls' = <<>>

RefundsIgnored(t) == FALSE

\* transaction.refunds.length > 0
HasRefunds(t) == refunds[t] > 0

\* remove: findUnique with refunds, and the two checks on its result
RemoveRead(t) ==
  /\ remove.pc = "idle"
  /\ removes < MaxRemove
  /\ removes' = removes + 1
  /\ IF ~Exists(t)
       THEN /\ reply' = Reply("remove", t, "NotFoundException", "Transaction not found")
            /\ UNCHANGED remove
     ELSE IF HasRefunds(t)
       THEN /\ reply' = Reply("remove", t, "BadRequestException",
                              "Cannot delete transaction with existing refunds")
            /\ UNCHANGED remove
     ELSE /\ remove' = [pc |-> "delete", id |-> t]
          /\ reply' = NoReply
  /\ UNCHANGED <<dbVars, listener, orderClock, httpVars, queueVars, refunds,
                 accountVars>>
  /\ emitted' = <<>>
  /\ cancelCalls' = <<>>

\* remove: prisma.transactions.delete; the row's transaction_events go with it
\* (ON DELETE CASCADE), a row of refunds forbids it (ON DELETE RESTRICT)
RemoveDelete ==
  /\ remove.pc = "delete"
  /\ remove' = RemoveIdle
  /\ LET t == remove.id
     IN IF Exists(t) /\ refunds[t] = 0
          THEN /\ transactions' = [k \in DOMAIN transactions \ {t} |-> transactions[k]]
               /\ transaction_events' =
                    SelectSeq(transaction_events, LAMBDA e : e.transaction_id # t)
               /\ reply' = Reply("remove", t, "ok", "Transaction deleted successfully")
          ELSE /\ UNCHANGED <<transactions, transaction_events>>
               /\ reply' = Reply("remove", t, "BadRequestException",
                                 "Failed to delete transaction")
  /\ UNCHANGED <<created, listener, orderClock, httpVars, queueVars, refunds, removes,
                 accountVars>>
  /\ emitted' = <<>>
  /\ cancelCalls' = <<>>

----------------------------------------------------------------------------
\* PayosService.handleWebhook and TransactionService.updateGatewayResponse

WebhookIdle == [pc |-> "idle", code |-> NULL, orderCode |-> NoCode, userId |-> NULL]

\* if (payload.code == '00') ... else ...
WebhookStatus(code) == IF code = "00" THEN COMPLETED ELSE FAILED

UpdateGatewayResponseRejectsRepeat(oc, status) ==
  IF FindByExternal(oc) = {} THEN "NotFoundException"
  ELSE IF \E id \in FindByExternal(oc) : transactions[id].status = status
    THEN "ConflictException"
  ELSE "ok"

\* the only check of updateGatewayResponse: a row carries the reference
UpdateGatewayResponseCheck(oc, status) ==
  IF FindByExternal(oc) = {} THEN "NotFoundException" ELSE "ok"

\* tx.transactions.updateMany({ where: { external_transaction_id }, data })
UpdateMany(oc, gw, status) ==
  [id \in DOMAIN transactions |->
     IF transactions[id].external_transaction_id = oc
       THEN [transactions[id] EXCEPT !.gateway_response = gw, !.status = status]
       ELSE transactions[id]]

CancelsTimeoutWithoutCancelled(status) == status \in {COMPLETED, FAILED}

\* the statuses for which updateGatewayResponse emits transaction.status_updated
CancelsTimeout(status) == status \in {COMPLETED, FAILED, CANCELLED}

StatusUpdatedPayload(id, status) ==
  [event |-> EV_STATUS_UPDATED, transactionId |-> id, status |-> status,
   shouldCancelTimeout |-> TRUE]

WebhookResultPayload(w) ==
  IF w.code = "00"
    THEN [event |-> EV_PAYMENT_SUCCESS, userId |-> w.userId, message |-> "Payment successful"]
    ELSE [event |-> EV_PAYMENT_FAILED, userId |-> w.userId, reason |-> w.code]

\* handleWebhook up to the result of getUserIdByExternalTransactionId
WebhookReceive(code, oc) ==
  /\ webhook.pc = "idle"
  /\ webhooks < MaxWebhook
  /\ webhooks' = webhooks + 1
  /\ IF FindByExternal(oc) # {}
       THEN /\ webhook' = [pc |-> "updateGatewayResponse", code |-> code, orderCode |-> oc,
                           userId |-> transactions[CHOOSE id \in FindByExternal(oc) : TRUE].user_id]
            /\ reply' = NoReply
       ELSE /\ reply' = Reply("webhook", oc, "NotFoundException", "Transaction not found")
            /\ UNCHANGED webhook
  /\ UNCHANGED <<dbVars, listener, orderClock, patch, patches, queueVars>>
  /\ emitted' = <<>>
  /\ cancelCalls' = <<>>
  /\ UNCHANGED <<removalVars, accountVars>>

\* the rest of handleWebhook: updateGatewayResponse as one $transaction, then
\* the payment.success / payment.failed event
WebhookUpdate ==
  /\ webhook.pc = "updateGatewayResponse"
  /\ webhook' = WebhookIdle
  /\ LET oc == webhook.orderCode
         status == WebhookStatus(webhook.code)
         check == UpdateGatewayResponseCheck(oc, status)
     IN IF check = "ok"
          THEN LET id == CHOOSE t \in FindByExternal(oc) : TRUE
                   upd == IF CancelsTimeout(status)
                            THEN <<StatusUpdatedPayload(id, status)>> ELSE <<>>
               IN /\ transactions' = UpdateMany(oc, GwWebhook(webhook.code, oc), status)
                  /\ transaction_events' =
                       Append(transaction_events,
                              AuditEvent(id, "GATEWAY_RESPONSE_UPDATED",
                                         transactions[id].status, status))
                  /\ emitted' = upd \o <<WebhookResultPayload(webhook)>>
                  /\ pendingCancel' =
                       IF CancelsTimeout(status)
                         THEN [pendingCancel EXCEPT ![id] = @ + 1]
                         ELSE pendingCancel
                  /\ reply' = Reply("webhook", oc, "ok", status)
          ELSE /\ reply' = Reply("webhook", oc, check, "Transaction not found")
               /\ UNCHANGED <<transactions, transaction_events, pendingCancel>>
               /\ emitted' = <<>>
  /\ UNCHANGED <<created, listener, orderClock, patch, patches, webhooks,
                 pendingSchedule, jobs, jobCounter, worker, rescheds>>
  /\ cancelCalls' = <<>>
  /\ UNCHANGED <<removalVars, accountVars>>

\* where the $transaction of updateGatewayResponse can fail once the row is
\* found: at one of its two writes, or at the commit after the callback
GatewayFaults == {"updateMany", "transaction_events.create", "commit"}

\* handleWebhook when the $transaction of updateGatewayResponse fails: the
\* unit is rolled back and handleWebhook rejects before its own emit; the
\* callback has called emitter.emit as its last statement, so a failure of
\* the commit comes after transaction.status_updated has gone to the queue
\* listener
WebhookUpdateFails(at) ==
  /\ webhook.pc = "updateGatewayResponse"
  /\ webhook' = WebhookIdle
  /\ LET oc == webhook.orderCode
         status == WebhookStatus(webhook.code)
     IN /\ UpdateGatewayResponseCheck(oc, status) = "ok"
        /\ LET id == CHOOSE t \in FindByExternal(oc) : TRUE
               written == <<UpdateMany(oc, GwWebhook(webhook.code, oc), status),
                            Append(transaction_events,
                                   AuditEvent(id, "GATEWAY_RESPONSE_UPDATED",
                                              transactions[id].status, status)),
                            created>>
               db == AtomicUnit(FALSE, written, dbVars)
               emits == at = "commit" /\ CancelsTimeout(status)
           IN /\ transactions' = db[1]
              /\ transaction_events' = db[2]
              /\ emitted' = IF emits THEN <<StatusUpdatedPayload(id, status)>> ELSE <<>>
              /\ pendingCancel' = IF emits
                                    THEN [pendingCancel EXCEPT ![id] = @ + 1]
                                    ELSE pendingCancel
        /\ reply' = Reply("webhook", oc, "error", at)
  /\ UNCHANGED <<created, listener, orderClock, patch, patches, webhooks,
                 pendingSchedule, jobs, jobCounter, worker, rescheds>>
  /\ cancelCalls' = <<>>
  /\ UNCHANGED <<removalVars, accountVars>>

\* updateGatewayResponse called by another provider of the application with
\* any status (TransactionModule exports the service): one $transaction
UpdateGatewayResponse(oc, status) ==
  /\ webhooks < MaxWebhook
  /\ webhooks' = webhooks + 1
  /\ LET check == UpdateGatewayResponseCheck(oc, status)
     IN IF check = "ok"
          THEN LET id == CHOOSE t \in FindByExternal(oc) : TRUE
               IN /\ transactions' = UpdateMany(oc, GwWebhook("00", oc), status)
                  /\ transaction_events' =
                       Append(transaction_events,
                              AuditEvent(id, "GATEWAY_RESPONSE_UPDATED",
                                         transactions[id].status, status))
                  /\ emitted' = IF CancelsTimeout(status)
                                  THEN <<StatusUpdatedPayload(id, status)>> ELSE <<>>
                  /\ pendingCancel' =
                       IF CancelsTimeout(status)
                         THEN [pendingCancel EXCEPT ![id] = @ + 1]
                         ELSE pendingCancel
                  /\ reply' = Reply("updateGatewayResponse", oc, "ok", status)
          ELSE /\ reply' = Reply("updateGatewayResponse", oc, check, "Transaction not found")
               /\ UNCHANGED <<transactions, transaction_events, pendingCancel>>
               /\ emitted' = <<>>
  /\ UNCHANGED <<created, listener, orderClock, patch, patches, webhook,
                 pendingSchedule, jobs, jobCounter, worker, rescheds>>
  /\ cancelCalls' = <<>>
  /\ UNCHANGED <<removalVars, accountVars>>

----------------------------------------------------------------------------
\* QueueListener and QueueService over the BullMQ queue

ScheduleJobIdAuto(data, counter) == <<"auto", counter>>

\* jobId: `timeout-${data.transactionId}` in scheduleTransactionTimeout
ScheduleJobId(data, counter) == <<"timeout", data.transactionId>>

CancelJobIdBare(transactionId) == <<"job", transactionId>>

\* const jobId = `timeout-${transactionId}` in cancelTransactionTimeout
CancelJobId(transactionId) == <<"timeout", transactionId>>

\* Queue.add with a jobId: a job whose id is already in the queue is kept and
\* nothing is added
QueueAdd(data) ==
  LET id == ScheduleJobId(data, jobCounter)
      known == \E j \in jobs : j.id = id
  IN /\ jobCounter' = jobCounter + 1
     /\ jobs' = IF known
                  THEN jobs
                  ELSE jobs \cup {[id |-> id, data |-> data, state |-> "delayed",
                                   attemptsMade |-> 0]}
     /\ reply' = Reply("schedule", data.transactionId,
                       IF known THEN "duplicate" ELSE "added", "")

\* handlePaymentLinkCreated: scheduleTransactionTimeout succeeds
ScheduleTimeout(d) ==
  /\ d \in pendingSchedule
  /\ pendingSchedule' = pendingSchedule \ {d}
  /\ QueueAdd(d)
  /\ UNCHANGED <<dbVars, listener, orderClock, httpVars, pendingCancel, worker,
                 rescheds>>
  /\ emitted' = <<>>
  /\ cancelCalls' = <<>>
  /\ UNCHANGED <<removalVars, accountVars>>

ScheduleTimeoutRaises(d) ==
  /\ d \in pendingSchedule
  /\ pendingSchedule' = pendingSchedule \ {d}
  /\ UNCHANGED <<dbVars, listener, orderClock, httpVars, pendingCancel, jobs,
                 jobCounter, worker, rescheds>>
  /\ emitted' = <<>>
  /\ reply' = Reply("schedule", d.transactionId, "Error", "Failed to schedule timeout job")
  /\ cancelCalls' = <<>>
  /\ UNCHANGED <<removalVars, accountVars>>

\* handlePaymentLinkCreated: queue.add throws; the error is logged
ScheduleTimeoutFails(d) ==
  /\ d \in pendingSchedule
  /\ pendingSchedule' = pendingSchedule \ {d}
  /\ UNCHANGED <<dbVars, listener, orderClock, httpVars, pendingCancel, jobs,
                 jobCounter, worker, rescheds>>
  /\ emitted' = <<>>
  /\ reply' = Reply("schedule", d.transactionId, "logged", "Failed to schedule timeout job")
  /\ cancelCalls' = <<>>
  /\ UNCHANGED <<removalVars, accountVars>>

\* scheduleTransactionTimeout called again for a transaction that has a
\* payment link (QueueModule exports the service)
Reschedule(t) ==
  /\ rescheds < MaxResched
  /\ Exists(t)
  /\ transactions[t].external_transaction_id # NoCode
  /\ rescheds' = rescheds + 1
  /\ QueueAdd([transactionId |-> t,
               externalTransactionId |-> transactions[t].external_transaction_id,
               userId |-> transactions[t].user_id])
  /\ UNCHANGED <<dbVars, listener, orderClock, httpVars, pendingSchedule,
                 pendingCancel, worker>>
  /\ emitted' = <<>>
  /\ cancelCalls' = <<>>
  /\ UNCHANGED <<removalVars, accountVars>>

\* cancelTransactionTimeout: getJob finds nothing, job.remove() throws for a
\* job a worker holds, or the job is removed
CancelOutcome(t) ==
  IF \A j \in jobs : j.id # CancelJobId(t) THEN "absent"
  ELSE IF \E j \in jobs : j.id = CancelJobId(t) /\ j.state = "active" THEN "threw"
  ELSE "removed"

\* what cancelTransactionTimeout logs before it returns true or false
CancelLog(outcome) ==
  CASE outcome = "removed" -> "Cancelled timeout job"
    [] outcome = "absent" -> "No timeout job found"
    [] OTHER -> "Failed to cancel timeout job"

\* handleTransactionStatusUpdated -> cancelTransactionTimeout: getJob, then
\* job.remove(), which throws for a job a worker holds; both outcomes and the
\* absence of a job leave the caller unaffected
CancelTimeout(t) ==
  /\ pendingCancel[t] > 0
  /\ pendingCancel' = [pendingCancel EXCEPT ![t] = @ - 1]
  /\ jobs' = {j \in jobs : ~(j.id = CancelJobId(t) /\ j.state # "active")}
  /\ UNCHANGED <<dbVars, listener, orderClock, httpVars, pendingSchedule, jobCounter,
                 worker, rescheds>>
  /\ emitted' = <<>>
  /\ reply' = Reply("cancelTimeout", t,
                    IF CancelOutcome(t) = "removed" THEN "true" ELSE "false",
                    CancelLog(CancelOutcome(t)))
  /\ cancelCalls' = <<>>
  /\ UNCHANGED <<removalVars, accountVars>>

----------------------------------------------------------------------------
\* The queue worker and TransactionTimeoutProcessor.handleCheckAndCancel

TimeoutMessage == "Transaction cancelled due to timeout"
SkippedMessage == "Transaction already processed, skipping timeout"

StillUnpaidOrCompleted(status) == status \in {PENDING, AWAITING_PAYMENT, COMPLETED}

StillUnpaidOrFailed(status) == status \in {PENDING, AWAITING_PAYMENT, FAILED}

StillUnpaidOnlyPending(status) == status = PENDING

\* transaction.status === PENDING || transaction.status === AWAITING_PAYMENT
StillUnpaid(status) == status \in {PENDING, AWAITING_PAYMENT}

WorkerAt(j, pc) == j.state = "active" /\ j.id \in DOMAIN worker /\ worker[j.id].pc = pc

WorkerGoto(j, pc) == worker' = [worker EXCEPT ![j.id].pc = pc]

WorkerEnd(j) == worker' = [k \in DOMAIN worker \ {j.id} |-> worker[k]]

\* the handler returned: removeOnComplete: true
JobCompleted(j) ==
  /\ jobs' = jobs \ {j}
  /\ WorkerEnd(j)

JobFailedDropped(j) ==
  /\ jobs' = jobs \ {j}
  /\ WorkerEnd(j)

\* the handler threw: attempts: 3, removeOnFail: false
JobFailed(j) ==
  /\ jobs' = (jobs \ {j}) \cup
       {[j EXCEPT !.attemptsMade = @ + 1,
                  !.state = IF j.attemptsMade + 1 < Attempts THEN "delayed" ELSE "failed"]}
  /\ WorkerEnd(j)

TimeoutFailedPayload(j, w) ==
  [event |-> EV_TRANSACTION_FAILED, transactionId |-> j.data.transactionId,
   reason |-> TimeoutMessage, userId |-> w.user_id, amount |-> w.amount]

\* the delay has elapsed and the worker takes the job
JobStart(j) ==
  /\ j \in jobs
  /\ j.state = "delayed"
  /\ jobs' = (jobs \ {j}) \cup {[j EXCEPT !.state = "active"]}
  /\ worker' = [k \in DOMAIN worker \cup {j.id} |->
                  IF k = j.id
                    THEN [pc |-> "findOne", status |-> NULL, read |-> NULL,
                          user_id |-> NULL, amount |-> 0]
                    ELSE worker[k]]
  /\ UNCHANGED <<dbVars, listener, orderClock, httpVars, pendingSchedule,
                 pendingCancel, jobCounter, rescheds>>
  /\ emitted' = <<>>
  /\ reply' = NoReply
  /\ cancelCalls' = <<>>
  /\ UNCHANGED <<removalVars, accountVars>>

\* findOne and the branch on the status it returned
HandlerFindOne(j) ==
  /\ j \in jobs
  /\ WorkerAt(j, "findOne")
  /\ LET t == j.data.transactionId
     IN IF ~Exists(t)
          THEN /\ JobFailed(j)
               /\ reply' = Reply("timeout", t, "NotFoundException", "Transaction not found")
        ELSE IF StillUnpaid(transactions[t].status)
          THEN /\ worker' = [worker EXCEPT ![j.id] =
                               [pc |-> "cancelPayment",
                                status |-> transactions[t].status, read |-> NULL,
                                user_id |-> transactions[t].user_id,
                                amount |-> transactions[t].amount]]
               /\ UNCHANGED jobs
               /\ reply' = NoReply
        ELSE /\ JobCompleted(j)
             /\ reply' = Reply("timeout", t, "skipped", SkippedMessage)
  /\ UNCHANGED <<dbVars, listener, orderClock, httpVars, pendingSchedule,
                 pendingCancel, jobCounter, rescheds>>
  /\ emitted' = <<>>
  /\ cancelCalls' = <<>>
  /\ UNCHANGED <<removalVars, accountVars>>

CancelPaymentRethrown(outcome) == IF outcome = "error" THEN "throw" ELSE "proceed"

\* try { await cancelPayment } catch { warn }: the handler goes on either way
CancelPaymentCaught(outcome) == "proceed"

\* payosService.cancelPayment returns or throws
HandlerCancelPayment(j) ==
  /\ j \in jobs
  /\ WorkerAt(j, "cancelPayment")
  /\ \E outcome \in {"ok", "error"} :
       /\ cancelCalls' = <<[orderCode |-> j.data.externalTransactionId,
                            outcome |-> outcome]>>
       /\ IF CancelPaymentCaught(outcome) = "proceed"
            THEN /\ WorkerGoto(j, "updateStatus_read")
                 /\ UNCHANGED jobs
                 /\ reply' = NoReply
            ELSE /\ JobFailed(j)
                 /\ reply' = Reply("timeout", j.data.transactionId, "error",
                                   "PayOS cancel payment failed")
  /\ UNCHANGED <<dbVars, listener, orderClock, httpVars, pendingSchedule,
                 pendingCancel, jobCounter, rescheds>>
  /\ emitted' = <<>>
  /\ UNCHANGED <<removalVars, accountVars>>

\* updateStatus: the findUnique before the $transaction block
HandlerUpdateStatusRead(j) ==
  /\ j \in jobs
  /\ WorkerAt(j, "updateStatus_read")
  /\ LET t == j.data.transactionId
     IN IF Exists(t)
          THEN /\ worker' = [worker EXCEPT ![j.id].pc = "updateStatus_write",
                                           ![j.id].read = transactions[t].status]
               /\ UNCHANGED jobs
               /\ reply' = NoReply
          ELSE /\ JobFailed(j)
               /\ reply' = Reply("timeout", t, "NotFoundException", "Transaction not found")
  /\ UNCHANGED <<dbVars, listener, orderClock, httpVars, pendingSchedule,
                 pendingCancel, jobCounter, rescheds>>
  /\ emitted' = <<>>
  /\ cancelCalls' = <<>>
  /\ UNCHANGED <<removalVars, accountVars>>

\* updateStatus: the $transaction block, then the transaction.failed event and
\* the return of the handler
HandlerUpdateStatusWrite(j) ==
  /\ j \in jobs
  /\ WorkerAt(j, "updateStatus_write")
  /\ LET t == j.data.transactionId
     IN IF Exists(t)
          THEN /\ transactions' = SetRow(t, [transactions[t] EXCEPT !.status = FAILED])
               /\ transaction_events' = UpdateStatusEvents(t, worker[j.id].read, FAILED)
               /\ emitted' = <<TimeoutFailedPayload(j, worker[j.id])>>
               /\ JobCompleted(j)
               /\ reply' = Reply("timeout", t, "success", TimeoutMessage)
          ELSE /\ JobFailed(j)
               /\ reply' = Reply("timeout", t, "error", "Record to update not found")
               /\ UNCHANGED <<transactions, transaction_events>>
            /\ emitted' = <<>>
  /\ UNCHANGED <<created, listener, orderClock, httpVars, pendingSchedule,
                 pendingCancel, jobCounter, rescheds>>
  /\ cancelCalls' = <<>>
  /\ UNCHANGED <<removalVars, accountVars>>

HandlerStep(j) ==
  \/ HandlerFindOne(j)
  \/ HandlerCancelPayment(j)
  \/ HandlerUpdateStatusRead(j)
  \/ HandlerUpdateStatusWrite(j)

----------------------------------------------------------------------------
\* TransactionService.getTransactionStats

StatsAmounts == {50000, 70000}
StatsFilters == {UNDEF, "u1", "u2"}

\* const where = userId ? { user_id: userId } : {}
StatsWhere(userId) ==
  {t \in DOMAIN transactions : userId = UNDEF \/ transactions[t].user_id = userId}

InPendingGroupWithoutProcessing(status) == status \in {PENDING, AWAITING_PAYMENT}

\* status: { in: ['pending', 'awaiting_payment', 'processing'] }
InPendingGroup(status) == status \in {PENDING, AWAITING_PAYMENT, PROCESSING}

\* status: { in: ['failed', 'cancelled'] }
InFailedGroup(status) == status \in {FAILED, CANCELLED}

\* prisma.transactions.count({ where })
Count(ids) == Cardinality(ids)

RECURSIVE SumOver(_)
\* prisma.transactions.aggregate({ where, _sum: { amount: true } }): the sum
\* of the rows as <<sum>>, and <<>> (null) when there is no row
SumOver(ids) ==
  IF ids = {} THEN <<>>
  ELSE LET t == CHOOSE x \in ids : TRUE
           rest == SumOver(ids \ {t})
       IN <<transactions[t].amount + (IF rest = <<>> THEN 0 ELSE rest[1])>>

\* totalAmount._sum.amount || 0
OrZero(sum) == IF sum = <<>> THEN 0 ELSE sum[1]

StatsResult(userId) ==
  LET where == StatsWhere(userId)
      done == {t \in where : transactions[t].status = COMPLETED}
  IN [total |-> Count(where),
      completed |-> Count(done),
      pending |-> Count({t \in where : InPendingGroup(transactions[t].status)}),
      failed |-> Count({t \in where : InFailedGroup(transactions[t].status)}),
      totalAmount |-> OrZero(SumOver(done))]

\* GET /transaction/stats
getTransactionStats(userId) ==
  /\ reply' = Answer("stats", 0, "ok", StatsResult(userId), userId)
  /\ emitted' = <<>>
  /\ cancelCalls' = <<>>
  /\ UNCHANGED <<dbVars, listener, orderClock, httpVars, queueVars, removalVars,
                 accountVars>>

\* the rows the transactions table can hold, as far as the statistics read them
StatsRows ==
  [user_id : Users, payment_method_id : {UNDEF}, amount : StatsAmounts,
   status : TransactionStatus, external_transaction_id : {NoCode},
   gateway_response : {GwNull}, completed_at : {NoTime}]

RECURSIVE CreatedEvents(_)
\* the "created" audit events of the rows 1..n
CreatedEvents(n) ==
  IF n = 0 THEN <<>>
  ELSE Append(CreatedEvents(n - 1), AuditEvent(n, "CREATED", NULL, PENDING))

----------------------------------------------------------------------------
\* UserService.create and KeycloakAdminService.createUser

EmailInputs == {"u1", "n1", "n2"}
KeycloakOutcomes == {"ok", "error"}
UserDbFaults == {"none", "users.create"}

\* the id Keycloak gives the user of the n-th request, and the ids of the
\* users registered beforehand
KeycloakId(n) == <<"kc", n>>
SeedKeycloakId(u) == <<"kc", "seed", u>>

\* what prisma.users.create throws: a Prisma error, which carries no
\* keycloakUser property
PrismaError(message) == [message |-> message, keycloakUser |-> UNDEF]

\* error.keycloakUser?.id in the catch block of UserService.create
RollbackId(error) ==
  IF error.keycloakUser = UNDEF THEN UNDEF ELSE error.keycloakUser.id

SignupEnd(r) == signup' = [k \in DOMAIN signup \ {r} |-> signup[k]]

\* UserService.create: findFirst by email, ConflictException when one exists
UserCreateRead(email) ==
  /\ signups < MaxSignup
  /\ signups' = signups + 1
  /\ IF \E u \in users : u.email = email
       THEN /\ reply' = Reply("createUser", signups + 1, "ConflictException",
                              "User with this email already exists")
            /\ UNCHANGED signup
       ELSE /\ signup' = [k \in DOMAIN signup \cup {signups + 1} |->
                            IF k = signups + 1
                              THEN [pc |-> "createUser", email |-> email,
                                    keycloakId |-> <<>>]
                              ELSE signup[k]]
            /\ reply' = NoReply
  /\ emitted' = <<>>
  /\ cancelCalls' = <<>>
  /\ UNCHANGED <<dbVars, listener, orderClock, httpVars, queueVars, removalVars,
                 keycloak, users, payment_methods, pmRequest, pmRequests>>

\* keycloakAdmin.createUser: the realm stores the user, or users.create is
\* refused (always so for an email the realm already holds) and the error
\* passes through the catch block of UserService.create
UserCreateKeycloak(r) ==
  /\ r \in DOMAIN signup
  /\ signup[r].pc = "createUser"
  /\ \E outcome \in KeycloakOutcomes :
       IF outcome = "ok" /\ \A k \in keycloak : k.email # signup[r].email
         THEN /\ keycloak' = keycloak \cup {[id |-> KeycloakId(r),
                                             email |-> signup[r].email]}
              /\ signup' = [signup EXCEPT ![r].pc = "insert",
                                          ![r].keycloakId = KeycloakId(r)]
              /\ reply' = NoReply
         ELSE /\ UNCHANGED keycloak
              /\ SignupEnd(r)
              /\ reply' = Reply("createUser", r, "error", "Failed to create user in Keycloak")
  /\ emitted' = <<>>
  /\ cancelCalls' = <<>>
  /\ UNCHANGED <<dbVars, listener, orderClock, httpVars, queueVars, removalVars,
                 users, signups, payment_methods, pmRequest, pmRequests>>

\* prisma.users.create, and the catch block when it throws: deleteUser is
\* called only for an id found on the error
UserCreateInsert(r) ==
  /\ r \in DOMAIN signup
  /\ signup[r].pc = "insert"
  /\ \E fault \in UserDbFaults :
       IF fault = "none" /\ \A u \in users : u.email # signup[r].email
         THEN /\ users' = users \cup {[email |-> signup[r].email,
                                       keycloak_id |-> signup[r].keycloakId]}
              /\ UNCHANGED keycloak
              /\ reply' = Reply("createUser", r, "ok", signup[r].email)
         ELSE LET error == PrismaError("users.create failed")
              IN /\ UNCHANGED users
                 /\ keycloak' = {k \in keycloak : k.id # RollbackId(error)}
                 /\ reply' = Reply("createUser", r, "error", error.message)
  /\ SignupEnd(r)
  /\ emitted' = <<>>
  /\ cancelCalls' = <<>>
  /\ UNCHANGED <<dbVars, listener, orderClock, httpVars, queueVars, removalVars,
                 signups, payment_methods, pmRequest, pmRequests>>

----------------------------------------------------------------------------
\* PaymentMethodsService.updateForUser and removeForUser

PmIdInputs == {"pm1", "pm2", "pmX"}
PmOps == {"updateForUser", "removeForUser"}
\* a request that sets the token another payment method may hold, and one
\* that sets is_default
PmDtos == {[token |-> "pm2", is_default |-> UNDEF],
           [token |-> UNDEF, is_default |-> "true"]}

PmCheckWithoutOwner(id, userId) ==
  IF id \notin DOMAIN payment_methods THEN "NotFoundException" ELSE "ok"

\* findUnique, then `if (!existing)` and `if (existing.user_id !== userId)`
PmCheck(id, userId) ==
  IF id \notin DOMAIN payment_methods THEN "NotFoundException"
  ELSE IF payment_methods[id].user_id # userId THEN "ForbiddenException"
  ELSE "ok"

PmMessage(check) ==
  IF check = "NotFoundException" THEN "Payment method not found"
  ELSE "You do not own this payment method"

PmCall(op, id, userId, dto) == [op |-> op, id |-> id, userId |-> userId, dto |-> dto]

PmEnd(r) == pmRequest' = [k \in DOMAIN pmRequest \ {r} |-> pmRequest[k]]

\* updateForUser and removeForUser up to the ownership check
PmRead(op, id, userId, dto) ==
  /\ pmRequests < MaxPmRequest
  /\ pmRequests' = pmRequests + 1
  /\ LET check == PmCheck(id, userId)
         call == PmCall(op, id, userId, IF op = "removeForUser" THEN NULL ELSE dto)
     IN IF check = "ok"
          THEN /\ pmRequest' = [k \in DOMAIN pmRequest \cup {pmRequests + 1} |->
                                  IF k = pmRequests + 1 THEN call ELSE pmRequest[k]]
               /\ reply' = NoReply
          ELSE /\ UNCHANGED pmRequest
               /\ reply' = Answer(op, pmRequests + 1, check, PmMessage(check), call)
  /\ emitted' = <<>>
  /\ cancelCalls' = <<>>
  /\ UNCHANGED <<dbVars, listener, orderClock, httpVars, queueVars, removalVars,
                 keycloak, users, signup, signups, payment_methods>>

\* data: { ...updatePaymentMethodDto }: the fields the request carries
PmUpdated(row, dto) ==
  [row EXCEPT !.token = IF dto.token = UNDEF THEN @ ELSE dto.token,
              !.is_default = IF dto.is_default = UNDEF THEN @ ELSE dto.is_default]

\* prisma.payment_methods.update and its catch block
PmUpdateWrite(r) ==
  /\ r \in DOMAIN pmRequest
  /\ pmRequest[r].op = "updateForUser"
  /\ LET id == pmRequest[r].id
         dto == pmRequest[r].dto
     IN IF id \notin DOMAIN payment_methods
          THEN /\ UNCHANGED payment_methods
               /\ reply' = Answer("updateForUser", r, "NotFoundException",
                                 "Payment method not found", pmRequest[r])
        ELSE IF dto.token # UNDEF
                  /\ \E o \in DOMAIN payment_methods \ {id} :
                        payment_methods[o].token = dto.token
          THEN /\ UNCHANGED payment_methods
               /\ reply' = Answer("updateForUser", r, "ConflictException",
                                 "Payment method token already exists", pmRequest[r])
        ELSE /\ payment_methods' =
                  [payment_methods EXCEPT ![id] = PmUpdated(@, dto)]
             /\ reply' = Answer("updateForUser", r, "ok", "", pmRequest[r])
  /\ PmEnd(r)
  /\ emitted' = <<>>
  /\ cancelCalls' = <<>>
  /\ UNCHANGED <<dbVars, listener, orderClock, httpVars, queueVars, removalVars,
                 keycloak, users, signup, signups, pmRequests>>

\* prisma.payment_methods.delete; the transactions of the payment method keep
\* their rows with payment_method_id set to null (ON DELETE SET NULL)
PmRemoveWrite(r) ==
  /\ r \in DOMAIN pmRequest
  /\ pmRequest[r].op = "removeForUser"
  /\ LET id == pmRequest[r].id
     IN IF id \notin DOMAIN payment_methods
          THEN /\ UNCHANGED <<payment_methods, transactions>>
               /\ reply' = Answer("removeForUser", r, "error",
                                 "Record to delete does not exist", pmRequest[r])
          ELSE /\ payment_methods' =
                    [o \in DOMAIN payment_methods \ {id} |-> payment_methods[o]]
               /\ transactions' =
                    [t \in DOMAIN transactions |->
                       IF transactions[t].payment_method_id = id
                         THEN [transactions[t] EXCEPT !.payment_method_id = NULL]
                         ELSE transactions[t]]
               /\ reply' = Answer("removeForUser", r, "ok",
                                 "Payment method has been deleted successfully",
                                 pmRequest[r])
  /\ PmEnd(r)
  /\ emitted' = <<>>
  /\ cancelCalls' = <<>>
  /\ UNCHANGED <<transaction_events, created, listener, orderClock, httpVars,
                 queueVars, removalVars, keycloak, users, signup, signups, pmRequests>>

\* the users and payment methods the transaction subsystem reads, each user
\* registered in the realm, and no request in flight
AccountsInit ==
  /\ keycloak = {[id |-> SeedKeycloakId(u), email |-> u] : u \in Users}
  /\ users = {[email |-> u, keycloak_id |-> SeedKeycloakId(u)] : u \in Users}
  /\ signup = <<>>
  /\ signups = 0
  /\ payment_methods = [pm \in PaymentMethods |->
                          [user_id |-> PaymentMethodOwner[pm], token |-> pm,
                           is_default |-> "false"]]
  /\ pmRequest = <<>>
  /\ pmRequests = 0

----------------------------------------------------------------------------
\* The system

Init ==
  /\ transactions = <<>>
  /\ transaction_events = <<>>
  /\ created = 0
  /\ emitted = <<>>
  /\ reply = NoReply
  /\ listener = <<>>
  /\ orderClock = FirstOrderCode
  /\ patch = PatchIdle
  /\ patches = 0
  /\ webhook = WebhookIdle
  /\ webhooks = 0
  /\ pendingSchedule = {}
  /\ pendingCancel = [t \in TxIds |-> 0]
  /\ jobs = {}
  /\ jobCounter = 0
  /\ worker = <<>>
  /\ cancelCalls = <<>>
  /\ rescheds = 0
  /\ refunds = [t \in TxIds |-> 0]
  /\ remove = RemoveIdle
  /\ removes = 0
  /\ AccountsInit

OrderCodeInputs == (FirstOrderCode .. (FirstOrderCode + MaxTx - 1)) \cup {UnknownOrderCode}

\* the orchestration listener's steps, for every transaction.created event
ListenerSteps ==
  \/ \E t \in TxIds : ListenerUpdateStatusRead(t)
  \/ \E t \in TxIds : ListenerUpdateStatusWrite(t)
  \/ \E t \in TxIds : ListenerCreatePayment(t)
  \/ \E t \in TxIds : ListenerUpdateRead(t)
  \/ \E t \in TxIds : ListenerUpdateWrite(t)
  \/ \E t \in TxIds : ListenerCatchRead(t)
  \/ \E t \in TxIds : ListenerCatchWrite(t)

\* the queue listener's scheduling and the timeout worker's steps
TimeoutSteps ==
  \/ \E d \in pendingSchedule : ScheduleTimeout(d)
  \/ \E d \in pendingSchedule : ScheduleTimeoutFails(d)
  \/ \E j \in jobs : JobStart(j)
  \/ \E j \in jobs : HandlerFindOne(j)
  \/ \E j \in jobs : HandlerCancelPayment(j)
  \/ \E j \in jobs : HandlerUpdateStatusRead(j)
  \/ \E j \in jobs : HandlerUpdateStatusWrite(j)

\* the lifecycle a created transaction runs through without further requests
LifecycleSteps == ListenerSteps \/ TimeoutSteps

PatchNext ==
  \/ \E t \in TxIds, s \in PatchStatusInputs : PatchRead(t, s)
  \/ PatchWrite

WebhookNext ==
  \/ \E c \in WebhookCodes, oc \in OrderCodeInputs : WebhookReceive(c, oc)
  \/ WebhookUpdate
  \/ \E t \in TxIds : CancelTimeout(t)
  \/ \E t \in TxIds : Reschedule(t)

\* every request and every handler
Next == Create \/ LifecycleSteps \/ PatchNext \/ WebhookNext

Spec == Init /\ [][Next]_vars

\* accepted and rejected create calls with the listener each accepted one starts
CoreNext == Create \/ CreateRejected \/ ListenerSteps

SpecCore == Init /\ [][CoreNext]_vars

\* the lifecycle of one transaction with PATCH requests
PatchedNext == CreateFirst \/ LifecycleSteps \/ PatchNext

SpecPatch == Init /\ [][PatchedNext]_vars

\* the lifecycle of one transaction with webhook deliveries and repeated
\* scheduling
DeliveredNext == CreateFirst \/ LifecycleSteps \/ WebhookNext

SpecWebhook == Init /\ [][DeliveredNext]_vars

\* the lifecycle of one transaction with PATCH requests, the listener's
\* continuations being run whenever they are enabled (the event loop resumes
\* a handler once the promise it awaits has settled)
FairSpecPatch ==
  SpecPatch /\ \A t \in TxIds :
    /\ WF_vars(ListenerUpdateStatusRead(t))
    /\ WF_vars(ListenerUpdateStatusWrite(t))
    /\ WF_vars(ListenerCreatePayment(t))
    /\ WF_vars(ListenerUpdateRead(t))
    /\ WF_vars(ListenerUpdateWrite(t))
    /\ WF_vars(ListenerCatchRead(t))
    /\ WF_vars(ListenerCatchWrite(t))

\* the lifecycle of one transaction that nobody pays and nobody touches, its
\* timeout possibly scheduled a second time
UnpaidNext == CreateFirst \/ LifecycleSteps \/ (\E t \in TxIds : Reschedule(t))

SpecUnpaid == Init /\ [][UnpaidNext]_vars

\* the queue's worker: the delay of a job elapses, and the handler's
\* continuations are run whenever they are enabled
WorkerFairness ==
  /\ WF_vars(\E j \in jobs : JobStart(j))
  /\ WF_vars(\E j \in jobs : HandlerFindOne(j))
  /\ WF_vars(\E j \in jobs : HandlerCancelPayment(j))
  /\ WF_vars(\E j \in jobs : HandlerUpdateStatusRead(j))
  /\ WF_vars(\E j \in jobs : HandlerUpdateStatusWrite(j))

FairSpecUnpaid == SpecUnpaid /\ WorkerFairness

\* the lifecycle of one transaction with deliveries of the success webhook
PaidNext ==
  \/ CreateFirst
  \/ LifecycleSteps
  \/ \E oc \in OrderCodeInputs : WebhookReceive("00", oc)
  \/ WebhookUpdate
  \/ \E t \in TxIds : CancelTimeout(t)

SpecPaid == Init /\ [][PaidNext]_vars

\* the queue listener's continuation after transaction.status_updated and the
\* worker are run whenever they are enabled
FairSpecPaid ==
  /\ SpecPaid
  /\ WorkerFairness
  /\ \A t \in TxIds : WF_vars(CancelTimeout(t))

\* DELETE requests and rows arriving in refunds
RemoveNext ==
  \/ \E t \in TxIds : RemoveRead(t)
  \/ RemoveDelete
  \/ \E t \in TxIds : RefundInserted(t)

\* one transaction and its listener, with DELETE requests
RemovedNext == CreateFirst \/ ListenerSteps \/ RemoveNext

SpecRemove == Init /\ [][RemovedNext]_vars

\* one transaction with webhook deliveries whose database unit can fail
RollbackNext ==
  \/ CreateFirst
  \/ LifecycleSteps
  \/ \E c \in WebhookCodes, oc \in OrderCodeInputs : WebhookReceive(c, oc)
  \/ WebhookUpdate
  \/ \E at \in GatewayFaults : WebhookUpdateFails(at)
  \/ \E t \in TxIds : CancelTimeout(t)

SpecRollback == Init /\ [][RollbackNext]_vars

\* up to MaxSharedTx transactions whose payment links are created at any
\* clock reading, with webhook deliveries
SharedTxIds == 1..MaxSharedTx

InitShared ==
  /\ transactions = <<>>
  /\ transaction_events = <<>>
  /\ created = 0
  /\ emitted = <<>>
  /\ reply = NoReply
  /\ listener = <<>>
  /\ orderClock = FirstOrderCode
  /\ patch = PatchIdle
  /\ patches = 0
  /\ webhook = WebhookIdle
  /\ webhooks = 0
  /\ pendingSchedule = {}
  /\ pendingCancel = [t \in SharedTxIds |-> 0]
  /\ jobs = {}
  /\ jobCounter = 0
  /\ worker = <<>>
  /\ cancelCalls = <<>>
  /\ rescheds = 0
  /\ refunds = [t \in SharedTxIds |-> 0]
  /\ remove = RemoveIdle
  /\ removes = 0
  /\ AccountsInit

CreateShared ==
  /\ created < MaxSharedTx
  /\ \E d \in CreateDtos : create("u1", d, "none")

SharedNext ==
  \/ CreateShared
  \/ \E t \in SharedTxIds : ListenerUpdateStatusRead(t)
  \/ \E t \in SharedTxIds : ListenerUpdateStatusWrite(t)
  \/ \E t \in SharedTxIds, now \in ClockInputs : ListenerCreatePaymentAt(t, now)
  \/ \E t \in SharedTxIds : ListenerUpdateRead(t)
  \/ \E t \in SharedTxIds : ListenerUpdateWrite(t)
  \/ \E c \in WebhookCodes, oc \in {OrderCodeAt(now) : now \in ClockInputs} :
       WebhookReceive(c, oc)
  \/ WebhookUpdate

SpecShared == InitShared /\ [][SharedNext]_vars

\* one transaction with webhook deliveries and with updateGatewayResponse
\* called with every status and every external reference
GatewayNext ==
  \/ CreateFirst
  \/ LifecycleSteps
  \/ \E c \in WebhookCodes, oc \in OrderCodeInputs : WebhookReceive(c, oc)
  \/ WebhookUpdate
  \/ \E oc \in OrderCodeInputs, s \in TransactionStatus : UpdateGatewayResponse(oc, s)
  \/ \E t \in TxIds : CancelTimeout(t)

SpecGateway == Init /\ [][GatewayNext]_vars

\* the statistics over every table of up to MaxStatsTx transactions
InitStats ==
  /\ \E n \in 0..MaxStatsTx :
       /\ transactions \in [1..n -> StatsRows]
       /\ transaction_events = CreatedEvents(n)
       /\ created = n
  /\ emitted = <<>>
  /\ reply = NoReply
  /\ listener = <<>>
  /\ orderClock = FirstOrderCode
  /\ patch = PatchIdle
  /\ patches = 0
  /\ webhook = WebhookIdle
  /\ webhooks = 0
  /\ pendingSchedule = {}
  /\ pendingCancel = [t \in TxIds |-> 0]
  /\ jobs = {}
  /\ jobCounter = 0
  /\ worker = <<>>
  /\ cancelCalls = <<>>
  /\ rescheds = 0
  /\ refunds = [t \in TxIds |-> 0]
  /\ remove = RemoveIdle
  /\ removes = 0
  /\ AccountsInit

StatsNext == \E u \in StatsFilters : getTransactionStats(u)

SpecStats == InitStats /\ [][StatsNext]_vars

\* POST /user requests
SignupNext ==
  \/ \E e \in EmailInputs : UserCreateRead(e)
  \/ \E r \in 1..MaxSignup : UserCreateKeycloak(r)
  \/ \E r \in 1..MaxSignup : UserCreateInsert(r)

SpecSignup == Init /\ [][SignupNext]_vars

\* PATCH and DELETE /payment-methods/:id requests of the two users, with one
\* transaction that may use a payment method
PmNext ==
  \/ CreateFirst
  \/ \E op \in PmOps, id \in PmIdInputs, u \in Users, d \in PmDtos : PmRead(op, id, u, d)
  \/ \E r \in 1..MaxPmRequest : PmUpdateWrite(r)
  \/ \E r \in 1..MaxPmRequest : PmRemoveWrite(r)

SpecPm == Init /\ [][PmNext]_vars

\* the lifecycle of one transaction whose first status write may fail
BestEffortNext ==
  \/ UnpaidNext
  \/ \E t \in TxIds : ListenerUpdateStatusFails(t)

SpecBestEffort == Init /\ [][BestEffortNext]_vars

\* the lifecycle of one transaction with PATCH requests, where the database
\* may fail in updateStatus and at the audit event of update
AtomicNext ==
  \/ PatchedNext
  \/ PatchWriteEventFails
  \/ \E t \in TxIds : ListenerUpdateStatusFails(t)

SpecAtomic == Init /\ [][AtomicNext]_vars

\* one transaction with its timeout job, with DELETE requests: the handler's
\* findOne and updateStatus throw once the transaction is gone
RetriedNext == CreateFirst \/ LifecycleSteps \/ RemoveNext

SpecRetry == Init /\ [][RetriedNext]_vars

FairSpecRetry == SpecRetry /\ WorkerFairness

----------------------------------------------------------------------------
\* Properties

Terminal == {COMPLETED, FAILED, CANCELLED, REFUNDED}

Kept(t) == t \in DOMAIN transactions /\ t \in DOMAIN transactions'

EventsIn(log, id) == SelectSeq(log, LAMBDA e : e.transaction_id = id)

\* C1: once a transaction's status is completed, failed, cancelled or
\* refunded, no later step of any operation changes it to a different status.
C1_TerminalStatusIsKept ==
  [][\A t \in TxIds :
       (Kept(t) /\ transactions[t].status \in Terminal)
         => transactions'[t].status = transactions[t].status]_vars

\* C2: the timeout handler writes FAILED only to a transaction whose status is
\* pending or awaiting_payment at the moment of the write.
C2_TimeoutWritesOnlyUnpaid ==
  [][(reply'.op = "timeout" /\ reply'.outcome = "success")
       => transactions[reply'.id].status \in {PENDING, AWAITING_PAYMENT}]_vars

\* the step in which the handler of job j evaluates the result of findOne
FindOneStep(j) ==
  /\ j \in jobs
  /\ WorkerAt(j, "findOne")
  /\ j.id \notin DOMAIN worker' \/ worker'[j.id].pc # "findOne"

\* C3: when the status the timeout handler reads is neither pending nor
\* awaiting_payment, the handler calls no provider cancel, writes no status,
\* appends no audit event, emits no event and returns the "already processed,
\* skipping timeout" result.
C3_ResolvedTransactionIsSkipped ==
  [][\A j \in jobs :
       (/\ FindOneStep(j)
        /\ Exists(j.data.transactionId)
        /\ transactions[j.data.transactionId].status \notin {PENDING, AWAITING_PAYMENT})
         => /\ cancelCalls' = <<>>
            /\ transactions' = transactions
            /\ transaction_events' = transaction_events
            /\ emitted' = <<>>
            /\ reply' = Reply("timeout", j.data.transactionId, "skipped",
                              "Transaction already processed, skipping timeout")]_vars

C3_Witness ==
  /\ reply.op = "timeout"
  /\ reply.outcome = "skipped"
  /\ transactions[reply.id].status = COMPLETED

\* C4: the queue holds at most one timeout job per transaction id.
C4_OneTimeoutJobPerTransaction ==
  \A t \in TxIds : Cardinality({j \in jobs : j.data.transactionId = t}) <= 1

\* a second scheduling arrived while the job of the transaction was in the queue
C4_Witness ==
  /\ reply.op = "schedule"
  /\ reply.outcome = "duplicate"
  /\ Cardinality({j \in jobs : j.data.transactionId = reply.id}) = 1

\* C5: completed_at is null until the status first becomes completed, is
\* non-null from that write on, and keeps its value through later updates.
C5_CompletedAtFollowsStatus ==
  [][\A t \in TxIds :
       Kept(t) =>
         /\ (transactions[t].completed_at = NoTime /\ transactions'[t].status # COMPLETED)
               => transactions'[t].completed_at = NoTime
         /\ transactions'[t].status = COMPLETED => transactions'[t].completed_at # NoTime
         /\ transactions[t].completed_at # NoTime
               => transactions'[t].completed_at = transactions[t].completed_at]_vars

\* C6: every step that changes a transaction's status appends exactly one audit
\* event for it, whose from-value is the status held immediately before the
\* write and whose to-value is the status written.
C6_StatusChangeIsAudited ==
  [][\A t \in TxIds :
       (Kept(t) /\ transactions'[t].status # transactions[t].status)
         => LET before == EventsIn(transaction_events, t)
                after == EventsIn(transaction_events', t)
            IN /\ Len(after) = Len(before) + 1
               /\ SubSeq(after, 1, Len(before)) = before
               /\ after[Len(after)].from_value = transactions[t].status
               /\ after[Len(after)].to_value = transactions'[t].status]_vars

ValidCreateInput(in) ==
  /\ in.fault = "none"
  /\ in.userId \in Users
  /\ \/ in.dto.payment_method_id = UNDEF
     \/ /\ in.dto.payment_method_id \in PaymentMethods
        /\ PaymentMethodOwner[in.dto.payment_method_id] = in.userId

CreateStoresPendingWithEvent(type) ==
  (reply'.op = "create" /\ ValidCreateInput(reply'.input))
    => /\ reply'.outcome = "ok"
       /\ reply'.id \notin DOMAIN transactions
       /\ reply'.id \in DOMAIN transactions'
       /\ transactions'[reply'.id].status = PENDING
       /\ transactions'[reply'.id].user_id = reply'.input.userId
       /\ LET evs == EventsIn(transaction_events', reply'.id)
          IN /\ Len(evs) = 1
             /\ evs[1].event_type = type
             /\ evs[1].to_value = PENDING

C8_FailedCreateLeavesNothing ==
  [][(reply'.op = "create" /\ ~ValidCreateInput(reply'.input))
       => /\ reply'.outcome = "BadRequestException"
          /\ transactions' = transactions
          /\ transaction_events' = transaction_events
          /\ emitted' = <<>>
          /\ listener' = listener]_vars

C8_Witness ==
  /\ reply.op = "create"
  /\ reply.outcome = "BadRequestException"
  /\ reply.input.fault = "transaction_events.create"
  /\ reply.input.userId \in Users
  /\ reply.input.dto.payment_method_id = UNDEF
  /\ created = 1

\* C9: updateGatewayResponse applied again with the external reference, payload
\* and terminal status the transaction already carries raises no error and
\* leaves status and gateway_response as the first application left them.
C9_RepeatedGatewayUpdateIsIdempotent ==
  [][\A t \in TxIds :
       (/\ Kept(t)
        /\ webhook.pc = "updateGatewayResponse"
        /\ webhook' # webhook
        /\ transactions[t].external_transaction_id = webhook.orderCode
        /\ transactions[t].gateway_response = GwWebhook(webhook.code, webhook.orderCode)
        /\ transactions[t].status = WebhookStatus(webhook.code))
         => /\ reply' = Reply("webhook", webhook.orderCode, "ok", transactions[t].status)
            /\ transactions'[t].status = transactions[t].status
            /\ transactions'[t].gateway_response = transactions[t].gateway_response]_vars

C9_Witness ==
  /\ reply.op = "webhook"
  /\ reply.outcome = "ok"
  /\ \E i \in 1..Len(transaction_events) :
       /\ transaction_events[i].event_type = "GATEWAY_RESPONSE_UPDATED"
       /\ transaction_events[i].from_value = COMPLETED
       /\ transaction_events[i].to_value = COMPLETED

TimeoutJobLive(t) ==
  \E j \in jobs : j.data.transactionId = t /\ j.state \in {"delayed", "active"}

\* the latest step emitted transaction.failed for t with the timeout reason
TimeoutFailedEmitted(t) ==
  \E i \in 1..Len(emitted) :
    /\ emitted[i].event = EV_TRANSACTION_FAILED
    /\ "transactionId" \in DOMAIN emitted[i]
    /\ emitted[i].transactionId = t
    /\ emitted[i].reason = "Transaction cancelled due to timeout"

\* C11: a transaction in awaiting_payment whose timeout job is scheduled, and
\* for which no webhook arrives, comes to status failed, and the
\* transaction.failed event with the timeout reason is emitted when the failed
\* status has been written.
C11_UnpaidTransactionTimesOut ==
  \A t \in TxIds :
    (Exists(t) /\ transactions[t].status = AWAITING_PAYMENT /\ TimeoutJobLive(t))
      ~> (Exists(t) /\ transactions[t].status = FAILED /\ TimeoutFailedEmitted(t))

C11_Witness ==
  /\ reply.op = "timeout"
  /\ reply.outcome = "success"
  /\ transactions[reply.id].status = FAILED
  /\ TimeoutFailedEmitted(reply.id)
  /\ EventsOf(reply.id)[Len(EventsOf(reply.id))] =
       AuditEvent(reply.id, "STATUS_CHANGED", AWAITING_PAYMENT, FAILED)

\* the latest step emitted a transaction.failed event about transaction t
TransactionFailedEmitted(t) ==
  \E i \in 1..Len(emitted) :
    /\ emitted[i].event = EV_TRANSACTION_FAILED
    /\ IF "transactionId" \in DOMAIN emitted[i]
         THEN emitted[i].transactionId = t
         ELSE emitted[i].userId = transactions[t].user_id

\* the latest step handled a success webhook for t, which was in
\* awaiting_payment, and the timeout job of t is still waiting for its delay
PaidWhileJobWaits(t) ==
  /\ Exists(t)
  /\ reply = Reply("webhook", transactions[t].external_transaction_id, "ok", COMPLETED)
  /\ EventsOf(t)[Len(EventsOf(t))] =
       AuditEvent(t, "GATEWAY_RESPONSE_UPDATED", AWAITING_PAYMENT, COMPLETED)
  /\ \E j \in jobs : j.data.transactionId = t /\ j.state = "delayed"

CancelCallFailed(t) ==
  /\ Len(cancelCalls) = 1
  /\ cancelCalls[1].outcome = "error"
  /\ \E j \in jobs : j.data.transactionId = t /\ j.state = "active"
                       /\ j.data.externalTransactionId = cancelCalls[1].orderCode

\* C15: when the timeout handler found the transaction in pending or
\* awaiting_payment and the provider's cancel call fails, the handler still
\* writes failed, still emits transaction.failed and returns its success
\* result; the job is completed and never retried.
C15_CancelFailureIsTolerated ==
  /\ \A t \in TxIds :
       CancelCallFailed(t)
         ~> (/\ reply = Reply("timeout", t, "success", "Transaction cancelled due to timeout")
             /\ Exists(t)
             /\ transactions[t].status = FAILED
             /\ TimeoutFailedEmitted(t)
             /\ \A j \in jobs : j.data.transactionId # t)
  /\ [](\A j \in jobs : j.attemptsMade = 0 /\ j.state # "failed")

C15_Witness ==
  /\ Len(cancelCalls) = 1
  /\ cancelCalls[1].outcome = "error"
  /\ \E j \in jobs : /\ WorkerAt(j, "updateStatus_read")
                       /\ transactions[j.data.transactionId].status = AWAITING_PAYMENT

HandlerEnds(j) == j \in jobs /\ j.state = "active" /\ j.id \in DOMAIN worker
                    /\ j.id \notin DOMAIN worker'

C17_QueueListenerAbsorbsErrors ==
  /\ [](reply.op \in {"schedule", "cancelTimeout"}
          => reply.outcome \in {"added", "duplicate", "logged", "true", "false"})
  /\ [][\A t \in TxIds :
          /\ (reply'.op = "schedule" /\ reply'.id = t /\ reply'.outcome = "logged")
               => /\ UNCHANGED <<transactions, transaction_events, jobs, listener,
                                 webhook>>
                  /\ listener[t].pc = "done"
          /\ (reply'.op = "cancelTimeout" /\ reply'.id = t /\ reply'.outcome = "false")
               => /\ UNCHANGED <<transactions, transaction_events, jobs, listener,
                                 webhook>>
                  /\ reply'.message \in {"No timeout job found",
                                         "Failed to cancel timeout job"}
                  /\ pendingCancel'[t] = pendingCancel[t] - 1]_vars

\* the removal for a paid transaction met the job while the worker held it
C17_Witness ==
  /\ reply.op = "cancelTimeout"
  /\ reply.outcome = "false"
  /\ reply.message = "Failed to cancel timeout job"
  /\ \E j \in jobs : j.data.transactionId = reply.id /\ j.state = "active"

\* the step is a successful updateGatewayResponse for reference oc with the
\* new status s, called directly or by the webhook handler
GatewayUpdated(oc, s) ==
  /\ reply'.op \in {"updateGatewayResponse", "webhook"}
  /\ reply'.id = oc
  /\ reply'.outcome = "ok"
  /\ reply'.message = s

StatusUpdatedIn(seq) == SelectSeq(seq, LAMBDA e : e.event = EV_STATUS_UPDATED)

\* C18: updateGatewayResponse emits transaction.status_updated, with the
\* internal id of the transaction and shouldCancelTimeout = TRUE, exactly when
\* the new status is completed, failed or cancelled; for any other status it
\* emits no such event, asks for no removal and removes no timeout job; and a
\* timeout job is removed by the queue listener only after such an event.
C18_StatusUpdatedOnlyForFinalStatus ==
  /\ [][\A oc \in OrderCodeInputs, s \in TransactionStatus :
          GatewayUpdated(oc, s) =>
            LET id == CHOOSE t \in FindByExternal(oc) : TRUE
            IN IF s \in {COMPLETED, FAILED, CANCELLED}
                 THEN /\ StatusUpdatedIn(emitted') =
                           <<[event |-> EV_STATUS_UPDATED, transactionId |-> id,
                              status |-> s, shouldCancelTimeout |-> TRUE]>>
                      /\ pendingCancel' = [pendingCancel EXCEPT ![id] = @ + 1]
                      /\ jobs' = jobs
                 ELSE /\ emitted' = <<>>
                      /\ pendingCancel' = pendingCancel
                      /\ jobs' = jobs]_vars
  /\ [][(\E t \in TxIds : pendingCancel'[t] > pendingCancel[t])
          => StatusUpdatedIn(emitted') # <<>>]_vars
  /\ [][\A t \in TxIds :
          (reply'.op = "cancelTimeout" /\ reply'.id = t) => pendingCancel[t] > 0]_vars

\* updateGatewayResponse has written cancelled and announced it
C18_Witness ==
  /\ reply.op = "updateGatewayResponse"
  /\ reply.outcome = "ok"
  /\ reply.message = CANCELLED
  /\ StatusUpdatedIn(emitted) # <<>>
  /\ emitted[1].status = CANCELLED
  /\ \E t \in TxIds : pendingCancel[t] > 0

\* no stored transaction carries the external reference oc
NoneCarries(oc) ==
  \A t \in DOMAIN transactions : transactions[t].external_transaction_id # oc

\* the step is a call of handleWebhook or updateGatewayResponse for oc, or
\* the second half of a webhook for oc
CalledFor(oc) ==
  \/ webhooks' # webhooks
       /\ (reply'.id = oc \/ (webhook.pc = "idle" /\ webhook'.orderCode = oc))
  \/ webhook.pc = "updateGatewayResponse" /\ webhook.orderCode = oc /\ webhook' # webhook

\* C19: handleWebhook and updateGatewayResponse, called with an external
\* reference that no transaction carries, fail with NotFoundException; no
\* transaction is changed, no audit event is added, no removal of a timeout
\* job is requested, and no event at all is emitted (so no payment.success,
\* payment.failed or transaction.status_updated).
C19_UnknownReferenceIsNotFound ==
  [][\A oc \in OrderCodeInputs :
       (NoneCarries(oc) /\ CalledFor(oc))
         => /\ reply'.op \in {"webhook", "updateGatewayResponse"}
            /\ reply'.id = oc
            /\ reply'.outcome = "NotFoundException"
            /\ reply'.message = "Transaction not found"
            /\ webhook'.pc = webhook.pc
            /\ UNCHANGED <<transactions, transaction_events, pendingCancel, jobs>>
            /\ emitted' = <<>>]_vars

\* a webhook for an unknown reference was refused while a transaction with
\* another reference is stored
C19_Witness ==
  /\ reply = Reply("webhook", UnknownOrderCode, "NotFoundException", "Transaction not found")
  /\ \E t \in DOMAIN transactions : transactions[t].external_transaction_id = FirstOrderCode
  /\ transaction_events # <<>>

\* the transactions the filter of the latest statistics call selects
StatsMatching ==
  {t \in DOMAIN transactions : reply.input = UNDEF \/ transactions[t].user_id = reply.input}

StatsWithStatus(S) == Cardinality({t \in StatsMatching : transactions[t].status \in S})

\* C21: for every table of transactions and every owner filter,
\* getTransactionStats returns total = the number of matching transactions,
\* completed = those with status completed, pending = those in pending,
\* awaiting_payment or processing, failed = those in failed or cancelled, and
\* totalAmount = the sum of the amounts of the completed ones (0 when there
\* are none); what remains of total is the number of refunded ones.
C21_StatsCountByGroup ==
  reply.op = "stats" =>
    LET r == reply.message
    IN /\ r.total = Cardinality(StatsMatching)
       /\ r.completed = StatsWithStatus({COMPLETED})
       /\ r.pending = StatsWithStatus({PENDING, AWAITING_PAYMENT, PROCESSING})
       /\ r.failed = StatsWithStatus({FAILED, CANCELLED})
       /\ r.totalAmount =
            50000 * Cardinality({t \in StatsMatching :
                                   /\ transactions[t].status = COMPLETED
                                   /\ transactions[t].amount = 50000})
            + 70000 * Cardinality({t \in StatsMatching :
                                     /\ transactions[t].status = COMPLETED
                                     /\ transactions[t].amount = 70000})
       /\ (r.completed = 0 => r.totalAmount = 0)
       /\ r.total - r.completed - r.pending - r.failed = StatsWithStatus({REFUNDED})

\* the statistics of a user with one completed transaction of 50000 and one
\* failed transaction
C21_Witness ==
  /\ reply.op = "stats"
  /\ reply.input = "u1"
  /\ DOMAIN transactions = {1, 2}
  /\ transactions[1].status = COMPLETED
  /\ transactions[1].amount = 50000
  /\ transactions[2].status = FAILED
  /\ reply.message = [total |-> 2, completed |-> 1, pending |-> 0, failed |-> 1,
                      totalAmount |-> 50000]

\* C22: when UserService.create has created the user in Keycloak and the
\* database insert then fails, the Keycloak user is deleted again: every
\* user of the realm either has a row in the users table or belongs to a
\* request that has not ended yet.
C22_FailedCreateLeavesNoKeycloakUser ==
  \A k \in keycloak :
    \/ \E u \in users : u.keycloak_id = k.id
    \/ \E r \in DOMAIN signup : signup[r].keycloakId = k.id

\* the step is the call r of updateForUser or removeForUser for payment method
\* id by the caller u
PmCalled(r, id, u) ==
  /\ pmRequests' = r
  /\ pmRequests = r - 1
  /\ \/ reply'.op \in PmOps /\ reply'.input.id = id /\ reply'.input.userId = u
     \/ r \in DOMAIN pmRequest' /\ pmRequest'[r].id = id /\ pmRequest'[r].userId = u

\* C23: updateForUser and removeForUser change or delete a payment method
\* only for its owner. Called for a payment method of another user they fail
\* with ForbiddenException, called for an unknown id with NotFoundException,
\* in both cases with the payment_methods table unchanged; and every step that
\* changes or deletes a payment method ends a request of its owner.
C23_OnlyOwnerChangesPaymentMethod ==
  [][/\ \A r \in 1..MaxPmRequest, id \in PmIdInputs, u \in Users :
          PmCalled(r, id, u) =>
            /\ payment_methods' = payment_methods
            /\ id \notin DOMAIN payment_methods
                 => /\ reply'.outcome = "NotFoundException"
                    /\ r \notin DOMAIN pmRequest'
            /\ (id \in DOMAIN payment_methods /\ payment_methods[id].user_id # u)
                 => /\ reply'.outcome = "ForbiddenException"
                    /\ r \notin DOMAIN pmRequest'
     /\ \A id \in DOMAIN payment_methods :
          (id \notin DOMAIN payment_methods' \/ payment_methods'[id] # payment_methods[id])
            => \E r \in DOMAIN pmRequest :
                 /\ r \notin DOMAIN pmRequest'
                 /\ pmRequest[r].id = id
                 /\ pmRequest[r].userId = payment_methods[id].user_id
     /\ DOMAIN payment_methods' \subseteq DOMAIN payment_methods]_vars

\* u1 was refused the removal of u2's payment method, which is still stored
C23_Witness ==
  /\ reply.op = "removeForUser"
  /\ reply.outcome = "ForbiddenException"
  /\ reply.input.id = "pm2"
  /\ reply.input.userId = "u1"
  /\ "pm2" \in DOMAIN payment_methods
  /\ payment_methods["pm2"].user_id = "u2"

\* C24: marking the transaction processing is best-effort in the listener:
\* whether the status write succeeds or fails, the step that ends it is
\* followed by the call of the provider.
C24_ProcessingWriteIsBestEffort ==
  [][\A t \in DOMAIN listener :
       (/\ listener[t].pc \in {"updateStatus_read", "updateStatus_write"}
        /\ listener'[t].pc \notin {"updateStatus_read", "updateStatus_write"})
         => listener'[t].pc = "createPayment"]_vars

\* C25: the status write and the audit-event append of update, updateStatus
\* and updateGatewayResponse take effect together or not at all: no step in
\* which the operation fails leaves a changed status without its audit event.
C25_StatusAndAuditTogether ==
  [][\A t \in TxIds :
       (/\ Exists(t)
        /\ t \in DOMAIN transactions'
        /\ transactions'[t].status # transactions[t].status
        /\ EventsIn(transaction_events', t) = EventsIn(transaction_events, t))
         => reply'.outcome \notin {"BadRequestException", "NotFoundException", "error"}]_vars

\* the transaction of t is completed while the payment.link_created handler
\* of the queue listener has not yet added the timeout job
PaidBeforeScheduled(t) ==
  /\ Exists(t)
  /\ transactions[t].status = COMPLETED
  /\ \E d \in pendingSchedule : d.transactionId = t
  /\ \A j \in jobs : j.data.transactionId # t

\* C26: when the success webhook is handled before the timeout job is
\* scheduled, the removal finds no job and returns false without raising,
\* the job is added afterwards, the handler that runs for it returns with
\* "skipped" and writes nothing, and the transaction stays completed with no
\* transaction.failed event.
C26_LateJobFindsCompleted ==
  /\ \A t \in TxIds :
       [](PaidBeforeScheduled(t)
            => [](/\ Exists(t)
                  /\ transactions[t].status = COMPLETED
                  /\ ~TransactionFailedEmitted(t)))
  /\ [][\A t \in TxIds :
         (PaidBeforeScheduled(t) /\ reply'.op = "cancelTimeout" /\ reply'.id = t)
           => /\ reply'.outcome = "false"
              /\ reply'.message = CancelLog("absent")
              /\ UNCHANGED <<dbVars, jobs, pendingSchedule>>]_vars
  /\ [][\A t \in TxIds :
         (PaidBeforeScheduled(t) /\ reply'.op = "schedule" /\ reply'.id = t
          /\ reply'.outcome = "added")
           => \E j \in jobs' : /\ j.data.transactionId = t
                               /\ j.state = "delayed"]_vars
  /\ [][\A j \in jobs :
         (/\ WorkerAt(j, "findOne")
          /\ worker' # worker
          /\ Exists(j.data.transactionId)
          /\ transactions[j.data.transactionId].status = COMPLETED)
           => /\ reply' = Reply("timeout", j.data.transactionId, "skipped",
                                SkippedMessage)
              /\ j \notin jobs'
              /\ emitted' = <<>>
              /\ UNCHANGED dbVars]_vars
  /\ \A t \in TxIds :
       (/\ Exists(t)
        /\ transactions[t].status = COMPLETED
        /\ pendingCancel[t] = 0
        /\ \E j \in jobs : j.data.transactionId = t /\ j.state = "delayed")
         ~> (\A j \in jobs : j.data.transactionId # t)

\* the job was added after the transaction was completed and after every
\* requested removal had run and found nothing
C26_Witness ==
  /\ reply.op = "schedule"
  /\ reply.outcome = "added"
  /\ Exists(reply.id)
  /\ transactions[reply.id].status = COMPLETED
  /\ pendingCancel[reply.id] = 0
  /\ \E j \in jobs : j.data.transactionId = reply.id /\ j.state = "delayed"

\* the payloads of transaction.created among the events of one step
CreatedEmits(es) ==
  {i \in 1..Len(es) : es[i].event = EV_TRANSACTION_CREATED}

\* the row of t and its initial audit event are stored in the given tables
CommittedIn(rows, events, t) ==
  /\ t \in DOMAIN rows
  /\ \E k \in 1..Len(events) :
       /\ events[k].transaction_id = t
       /\ events[k].event_type = "CREATED"
       /\ events[k].to_value = PENDING

\* C27: a successful create emits transaction.created exactly once, for the
\* transaction it has committed together with its initial audit event; no
\* other step emits transaction.created; the orchestration listener is
\* started only by that event, for a stored transaction, and its first read
\* finds the transaction.
C27_CreatedEmittedOnceAfterCommit ==
  /\ [][/\ (reply'.op = "create" /\ reply'.outcome = "ok")
             => /\ Cardinality(CreatedEmits(emitted')) = 1
                /\ reply'.id \notin DOMAIN transactions
          /\ (\A i \in CreatedEmits(emitted') :
                /\ reply'.op = "create"
                /\ reply'.outcome = "ok"
                /\ emitted'[i].transactionId = reply'.id
                /\ CommittedIn(transactions', transaction_events', reply'.id)
                /\ emitted'[i] = CreatedPayload(reply'.id, transactions'[reply'.id]))
          /\ (\A t \in DOMAIN listener' \ DOMAIN listener :
                /\ \E e \in CreatedEmits(emitted') : emitted'[e].transactionId = t
                /\ listener'[t].payload.transactionId = t
                /\ CommittedIn(transactions', transaction_events', t))]_vars
  /\ [][\A t \in DOMAIN listener :
          (/\ listener[t].pc = "updateStatus_read"
           /\ t \in DOMAIN listener' => listener'[t] # listener[t])
            => /\ t \in DOMAIN listener'
               /\ listener'[t].pc = "updateStatus_write"
               /\ listener'[t].read = transactions[t].status]_vars

\* the listener has received transaction.created for a transaction whose
\* row and initial audit event are stored
C27_Witness ==
  /\ reply.op = "create"
  /\ reply.outcome = "ok"
  /\ Cardinality(CreatedEmits(emitted)) = 1
  /\ emitted[1].transactionId = reply.id
  /\ CommittedIn(transactions, transaction_events, reply.id)
  /\ reply.id \in DOMAIN listener
  /\ listener[reply.id].pc = "updateStatus_read"

\* C28: a step that emits transaction.status_updated, or that asks the queue
\* listener for the removal of a timeout job, is a committed status change:
\* the transaction named in the event has the event's status afterwards and
\* a new audit event.
C28_StatusUpdatedOnlyWhenCommitted ==
  [][/\ \A i \in 1..Len(StatusUpdatedIn(emitted')) :
          LET e == StatusUpdatedIn(emitted')[i]
          IN /\ e.transactionId \in DOMAIN transactions'
             /\ transactions'[e.transactionId].status = e.status
             /\ Len(EventsIn(transaction_events', e.transactionId))
                  = Len(EventsIn(transaction_events, e.transactionId)) + 1
     /\ \A t \in TxIds :
          pendingCancel'[t] > pendingCancel[t]
            => /\ reply'.outcome = "ok"
               /\ t \in DOMAIN transactions'
               /\ CancelsTimeout(transactions'[t].status)]_vars

\* the transaction for which the step appended its audit event
Audited == transaction_events'[Len(transaction_events')].transaction_id

\* C29: a successful updateGatewayResponse changes one transaction only: the
\* one that gets the audit event and is named in transaction.status_updated
\* has the new status, and every other row is as it was.
C29_UpdatesExactlyOneTransaction ==
  [][\A oc \in {OrderCodeAt(now) : now \in ClockInputs}, s \in TransactionStatus :
       GatewayUpdated(oc, s)
         => /\ Len(transaction_events') = Len(transaction_events) + 1
            /\ transactions'[Audited].status = s
            /\ transactions'[Audited].external_transaction_id = oc
            /\ \A i \in 1..Len(StatusUpdatedIn(emitted')) :
                 StatusUpdatedIn(emitted')[i].transactionId = Audited
            /\ \A t \in DOMAIN transactions :
                 t # Audited => transactions'[t] = transactions[t]]_vars

\* an operation that reads or writes transaction t is between two of its steps
InProgress(t) ==
  \/ t \in DOMAIN listener /\ listener[t].pc \notin {"done", "crashed"}
  \/ patch.pc # "idle" /\ patch.id = t
  \/ webhook.pc # "idle"
  \/ \E j \in jobs : j.data.transactionId = t /\ j.id \in DOMAIN worker

\* C30: whenever no operation on a stored transaction is in progress, the
\* to-value of its most recently appended audit event is its current status.
C30_LastAuditEventIsStatus ==
  \A t \in TxIds :
    (Exists(t) /\ ~InProgress(t))
      => /\ Len(EventsOf(t)) > 0
         /\ EventsOf(t)[Len(EventsOf(t))].to_value = transactions[t].status

====
